---- MODULE Spec2Model ----
(***************************************************************************)
(* State-machine model of the roocode memory bank:                         *)
(*   src/src/enhanced-memory-bank.ts  (EnhancedMemoryBank)                 *)
(*   src/src/memory-bank.ts           (MemoryBank facade)                  *)
(*                                                                         *)
(* A JavaScript string is modelled as a sequence of tokens.  A token is    *)
(* either the newline "\n", a blank " ", one of the characters that        *)
(* String.prototype.replace treats specially in a replacement string       *)
(* ("$", "&", "`", "'", "1"), or an opaque piece of text that contains     *)
(* none of these.  Time is counted in whole hours since 2024-01-01T00:00Z. *)
(***************************************************************************)
EXTENDS Integers, Sequences, FiniteSets, TLC

VARIABLES
  now,       \* the wall clock: hours since 2024-01-01T00:00Z
  dirs,      \* the directories that exist
  marker,    \* <base>/.last_update: <<>> when absent, <<t>> when it holds time t
  master,    \* <base>/<name>.md: file name -> content
  daily,     \* <base>/daily/activeContext-<date>.md: date string -> content
  sessions,  \* <base>/sessions/session-<time>.md: creation time -> content
  archive,   \* files below <base>/archive: relative path -> content
  denied,    \* the directories in which every write fails (permission denied),
             \* the names of the daily files that cannot be moved, and the
             \* files that cannot be read
  ret        \* what the last operation did and returned

vars == <<now, dirs, marker, master, daily, sessions, archive, denied, ret>>

-----------------------------------------------------------------------------
(* Strings *)

NL == "\n"
SP == " "

\* s.substring(lo - 1, hi), empty when hi < lo
Sub(s, lo, hi) == IF hi < lo THEN <<>> ELSE SubSeq(s, lo, hi)

IsSpace(a) == a \in {NL, SP}

RECURSIVE TrimStart(_)
TrimStart(s) ==
  IF s # <<>> /\ IsSpace(Head(s)) THEN TrimStart(Tail(s)) ELSE s

RECURSIVE TrimEnd(_)
TrimEnd(s) ==
  IF s # <<>> /\ IsSpace(s[Len(s)]) THEN TrimEnd(Sub(s, 1, Len(s) - 1)) ELSE s

\* String.prototype.trim
Trim(s) == TrimEnd(TrimStart(s))

\* the least element of a non-empty set of integers
Min(S) == CHOOSE x \in S : \A y \in S : x <= y
Max(S) == CHOOSE x \in S : \A y \in S : y <= x

\* the value of f at the one element of its domain: With([x \in {e} |-> body])
\* is body with x the value of e, computed once and then held, as a const is
With(f) == CHOOSE r \in {g[CHOOSE x \in DOMAIN g : TRUE] : g \in {f}} : TRUE

\* s.indexOf(pat) + 1 for a pattern given as a token sequence; 0 when absent
IndexOf(s, pat) ==
  With([str \in {s} |->
  With([hits \in {{i \in 1..(Len(str) - Len(pat) + 1) : Sub(str, i, i + Len(pat) - 1) = pat}} |-> IF hits = {} THEN 0 ELSE Min(hits)])])

\* GetSubstitution of String.prototype.replace: the replacement string repl
\* with $$, $&, $`, $' and $1 expanded.  matched is the text the regular
\* expression matched, before and after the text around it, groups the
\* captures of the expression (at most one here).
RECURSIVE GetSubstitution(_, _, _, _, _)
GetSubstitution(repl, matched, before, after, groups) ==
  IF repl = <<>> THEN <<>>
  ELSE IF Head(repl) = "$" /\ Len(repl) >= 2
    THEN LET c == repl[2]
             rest == GetSubstitution(Sub(repl, 3, Len(repl)), matched, before, after, groups)
         IN CASE c = "$" -> <<"$">> \o rest
              [] c = "&" -> matched \o rest
              [] c = "`" -> before \o rest
              [] c = "'" -> after \o rest
              [] c = "1" /\ Len(groups) >= 1 -> groups[1] \o rest
              [] OTHER -> <<"$">> \o GetSubstitution(Tail(repl), matched, before, after, groups)
    ELSE <<Head(repl)>> \o GetSubstitution(Tail(repl), matched, before, after, groups)

-----------------------------------------------------------------------------
(* Section editor *)

\* the tokens whose text starts with "## "
H2Atoms ==
  {"## Current Focus", "## Recent Changes", "## Open Questions/Issues", "## Statistics",
   "## Project Overview", "## Goals and Objectives", "## Core Features",
   "## Architecture Overview", "## Architectural Patterns", "## Design Patterns",
   "## Technical Decisions", "## Decisions", "## Current Tasks", "## Completed Tasks",
   "## Upcoming Tasks", "## Milestones", "## Start Time", "## End Time", "## Focus",
   "## Notes", "## Sub"}

\* the lookahead (?=\n## |$) of sectionRegex holds after position e of s
SectionStop(s, e) ==
  \/ e = Len(s)
  \/ e + 2 <= Len(s) /\ s[e + 1] = NL /\ s[e + 2] \in H2Atoms

\* the match of sectionRegex = `${sectionHeader}\n([\s\S]*?)(?=\n## |$)`:
\* <<i, e>> where the header is s[i] and the lazy group ends at e, or <<0, 0>>
SectionMatch(s, sectionHeader) ==
  With([str \in {s} |->
  With([i \in {IndexOf(str, <<sectionHeader, NL>>)} |->
    IF i = 0 THEN <<0, 0>>
    ELSE <<i, Min({e \in (i + 1)..Len(str) : SectionStop(str, e)})>>])])

extractSection(content, sectionHeader) ==
  With([c \in {content} |->
  With([m \in {SectionMatch(c, sectionHeader)} |->
    IF m[1] = 0 THEN <<>> ELSE With([body \in {Sub(c, m[1] + 2, m[2])} |-> Trim(body)])])])

\* a variant that adds the section at the end when the header is not found
updateSectionOrAppend(content, sectionHeader, newContent) ==
  With([c \in {content} |->
  With([replacement \in {<<sectionHeader, NL>> \o newContent \o <<NL>>} |->
  With([m \in {SectionMatch(c, sectionHeader)} |->
    IF m[1] = 0 THEN c \o replacement
    ELSE With([before \in {Sub(c, 1, m[1] - 1)} |->
         With([after \in {Sub(c, m[2] + 1, Len(c))} |->
           before
           \o GetSubstitution(replacement, Sub(c, m[1], m[2]), before, after,
                              <<Sub(c, m[1] + 2, m[2])>>)
           \o after])])])])])

updateSection(content, sectionHeader, newContent) ==
  With([c \in {content} |->
  With([replacement \in {<<sectionHeader, NL>> \o newContent \o <<NL>>} |->
  With([m \in {SectionMatch(c, sectionHeader)} |->
    IF m[1] = 0 THEN c
    ELSE With([before \in {Sub(c, 1, m[1] - 1)} |->
         With([after \in {Sub(c, m[2] + 1, Len(c))} |->
           before
           \o GetSubstitution(replacement, Sub(c, m[1], m[2]), before, after,
                              <<Sub(c, m[1] + 2, m[2])>>)
           \o after])])])])])

-----------------------------------------------------------------------------
(* Clock and calendar *)

HoursPerDay == 24
sessionTimeoutHours == 2
archiveThresholdDays == 7

IsLeap(y) == (y % 4 = 0 /\ y % 100 # 0) \/ y % 400 = 0

DaysInMonth(y, m) ==
  IF m = 2 THEN (IF IsLeap(y) THEN 29 ELSE 28)
  ELSE IF m \in {4, 6, 9, 11} THEN 30 ELSE 31

\* the calendar date n days after date d (n >= 0), as <<year, month, day>>
RECURSIVE AddDays(_, _)
AddDays(d, n) ==
  IF n = 0 THEN d
  ELSE IF d[3] < DaysInMonth(d[1], d[2]) THEN AddDays(<<d[1], d[2], d[3] + 1>>, n - 1)
  ELSE IF d[2] < 12 THEN AddDays(<<d[1], d[2] + 1, 1>>, n - 1)
  ELSE AddDays(<<d[1] + 1, 1, 1>>, n - 1)

\* date.toISOString().split('T')[0]: the UTC date "YYYY-MM-DD" of time t.
\* The zero-padded string is kept as <<YYYY, MM, DD>>.
getDateString(t) == AddDays(<<2024, 1, 1>>, t \div HoursPerDay)

\* a < b on zero-padded date strings (JavaScript string comparison)
DateStrLess(a, b) ==
  \/ a[1] < b[1]
  \/ a[1] = b[1] /\ a[2] < b[2]
  \/ a[1] = b[1] /\ a[2] = b[2] /\ a[3] < b[3]

\* new Date().toISOString().replace('T', ' ').substring(0, 19) at time t
getTimestamp(t) == ToString(t)

\* the text "[<timestamp>] - " that starts a log entry
EntryPrefix(t) == "[" \o getTimestamp(t) \o "] - "

-----------------------------------------------------------------------------
(* File store *)

BaseDir == "base"
DailyDir == "daily"
SessionsDir == "sessions"
ArchiveDir == "archive"

\* fs.readFile through EnhancedMemoryBank.readFile: '' when the file is absent
readFile(files, name) == IF name \in DOMAIN files THEN files[name] ELSE <<>>

\* the directory map files with the file name holding content
Put(files, name, content) ==
  [n \in DOMAIN files \cup {name} |-> IF n = name THEN content ELSE files[n]]

\* the directory map files without the file name
Remove(files, name) == [n \in DOMAIN files \ {name} |-> files[n]]

\* fs.ensureDir: the directory and its ancestors exist afterwards
ensureDir(ds, dir) == ds \cup {BaseDir, dir}

\* a directory without files
NoFiles == [n \in {} |-> <<>>]

\* the state of the file system, as one value
World == [dirs |-> dirs, marker |-> marker, master |-> master, daily |-> daily,
          sessions |-> sessions, archive |-> archive, denied |-> denied]

\* fs.ensureDir(dir) does not throw: the directory exists, or it and the base
\* directory above it can be written
CanEnsure(w, dir) == dir \in w.dirs \/ (dir \notin w.denied /\ BaseDir \notin w.denied)

\* the result of EnhancedMemoryBank.writeFile on a file of directory dir:
\* false when ensureDir or fs.writeFile throws
CanWrite(w, dir) == dir \notin w.denied /\ CanEnsure(w, dir)

\* fs.writeFile on <base>/.last_update does not throw: the base directory is
\* not created for it
CanWriteMarker(w) == BaseDir \in w.dirs /\ BaseDir \notin w.denied

\* how `denied` names a file on which fs.readFile fails
Unreadable(name) == "unreadable:" \o ToString(name)

\* EnhancedMemoryBank.readFile in the world w: the error of a failing read is
\* caught and '' is returned
readFileIn(w, files, name) ==
  IF Unreadable(name) \in w.denied THEN <<>> ELSE readFile(files, name)

\* EnhancedMemoryBank.writeFile on a file of the daily directory
writeDaily(w, dateStr, content) ==
  IF CanWrite(w, DailyDir)
    THEN [w EXCEPT !.dirs = ensureDir(@, DailyDir), !.daily = Put(@, dateStr, content)]
  ELSE w

\* EnhancedMemoryBank.writeFile on a file of the sessions directory
writeSession(w, name, content) ==
  IF CanWrite(w, SessionsDir)
    THEN [w EXCEPT !.dirs = ensureDir(@, SessionsDir), !.sessions = Put(@, name, content)]
  ELSE w

\* EnhancedMemoryBank.writeFile on a master file
writeMaster(w, name, content) ==
  IF CanWrite(w, BaseDir)
    THEN [w EXCEPT !.dirs = ensureDir(@, BaseDir), !.master = Put(@, name, content)]
  ELSE w

-----------------------------------------------------------------------------
(* Daily file manager *)

StatisticsBlock ==
  <<"## Statistics", NL,
    "- Time Spent: 0h 0m", NL,
    "- Estimated Cost: ", "$", "0", NL,
    "- Files Created: 0", NL,
    "- Files Modified: 0", NL,
    "- Files Deleted: 0", NL,
    "- Lines of Code Added: 0", NL,
    "- Lines of Code Removed: 0", NL,
    "- Total Lines of Code: 0", NL>>

\* the template createDailyFile writes for dateStr
DailyTemplate(dateStr) ==
  <<"# Active Context - " \o ToString(dateStr), NL, NL,
    "## Current Focus", NL, "-", NL, NL,
    "## Recent Changes", NL, "-", NL, NL,
    "## Open Questions/Issues", NL, "-", NL, NL>> \o StatisticsBlock

\* a variant that writes the template whether or not the file exists
createDailyFileAlways(w, date) ==
  With([dateStr \in {getDateString(date)} |->
    [w |-> writeDaily(w, dateStr, DailyTemplate(dateStr)), path |-> dateStr]])

\* createDailyFile(date) at file system w: the file system afterwards and the
\* returned path (the date string that names the file)
createDailyFile(w, date) ==
  With([dateStr \in {getDateString(date)} |->
    [w |-> IF dateStr \notin DOMAIN w.daily
             THEN writeDaily(w, dateStr, DailyTemplate(dateStr))
             ELSE w,
     path |-> dateStr]])

\* the greatest date string of a non-empty set (files.sort().reverse()[0])
LatestDate(S) == CHOOSE d \in S : \A e \in S : e = d \/ DateStrLess(e, d)

\* getLatestDailyFile: <<>> for null, <<dateStr>> for a path.  readdir of a
\* missing daily directory throws, which is caught and gives null as well.
getLatestDailyFile(w) ==
  IF DailyDir \notin w.dirs \/ DOMAIN w.daily = {} THEN <<>>
  ELSE <<LatestDate(DOMAIN w.daily)>>

loadContext(w, t) ==
  With([latestDailyFile \in {getLatestDailyFile(w)} |->
    IF latestDailyFile = <<>> THEN [w |-> w, ok |-> FALSE]
    ELSE
      With([created \in {createDailyFile(w, t)} |->
      With([latestContent \in {readFile(created.w.daily, latestDailyFile[1])} |->
      With([todayContent \in {readFile(created.w.daily, created.path)} |->
      With([currentFocus \in {extractSection(latestContent, "## Current Focus")} |->
      With([openQuestions \in {extractSection(latestContent, "## Open Questions/Issues")} |->
      With([updated1 \in {updateSection(todayContent, "## Current Focus", currentFocus)} |->
      With([updated2 \in {updateSection(updated1, "## Open Questions/Issues", openQuestions)} |->
        [w |-> writeDaily(created.w, created.path, updated2),
         ok |-> CanWrite(created.w, DailyDir)]])])])])])])])])

\* String.prototype.replace(/## Recent Changes\n/, `## Recent Changes\n[ts] - ${recentChanges}\n`)
prependRecentChange(content, t, recentChanges) ==
  With([c \in {content} |->
  With([replacement \in {<<"## Recent Changes", NL, EntryPrefix(t)>> \o recentChanges \o <<NL>>} |->
  With([i \in {IndexOf(c, <<"## Recent Changes", NL>>)} |->
    IF i = 0 THEN c
    ELSE With([before \in {Sub(c, 1, i - 1)} |->
         With([after \in {Sub(c, i + 2, Len(c))} |->
           before
           \o GetSubstitution(replacement, <<"## Recent Changes", NL>>, before, after, <<>>)
           \o after])])])])])

\* the three section edits updateDailyActiveContext and updateActiveContext
\* both apply to a document
applyActiveContextUpdate(content, t, update) ==
  With([c1 \in {IF update.currentFocus # <<>>
         THEN updateSection(content, "## Current Focus", update.currentFocus)
         ELSE content} |->
  With([c2 \in {IF update.recentChanges # <<>>
         THEN prependRecentChange(c1, t, update.recentChanges)
         ELSE c1} |->
    IF update.openQuestions # <<>>
      THEN updateSection(c2, "## Open Questions/Issues", update.openQuestions)
      ELSE c2])])

updateDailyActiveContext(w, t, update) ==
  With([created \in {createDailyFile(w, t)} |->
  With([content \in {readFileIn(created.w, created.w.daily, created.path)} |->
  With([updatedContent \in {applyActiveContextUpdate(content, t, update)} |->
    [w |-> writeDaily(created.w, created.path, updatedContent),
     ok |-> CanWrite(created.w, DailyDir)]])])])

-----------------------------------------------------------------------------
(* Session manager *)

\* a variant that also starts a session when exactly the timeout has passed
shouldStartNewSessionAtTimeout(w, t) ==
  IF w.marker = <<>> THEN TRUE
  ELSE (t - w.marker[1]) >= sessionTimeoutHours

shouldStartNewSession(w, t) ==
  IF w.marker = <<>> THEN TRUE
  ELSE (t - w.marker[1]) > sessionTimeoutHours

\* the content createSessionFile writes at time t
SessionTemplate(t) ==
  <<"# Development Session - " \o getTimestamp(t), NL, NL,
    "## Start Time", NL, getTimestamp(t), NL, NL,
    "## End Time", NL, "(In progress)", NL, NL,
    "## Focus", NL, "-", NL, NL,
    "## Notes", NL, "-", NL, NL,
    "## Statistics", NL,
    "- Time Spent: 0h 0m", NL,
    "- Estimated Cost: ", "$", "0", NL>>

\* createSessionFile at time t: the file is named by the time of its creation
createSessionFile(w, t) ==
  [w |-> writeSession(w, t, SessionTemplate(t)), path |-> t]

\* content.includes('End Time\n(In progress)')
IncludesInProgress(content) ==
  With([c \in {content} |->
    \E i \in 1..(Len(c) - 2) :
      /\ c[i] = "## End Time"
      /\ c[i + 1] = NL
      /\ c[i + 2] = "(In progress)"])

\* a variant that returns the newest session file that is still in progress,
\* whether or not it is the newest session file
getCurrentSessionFileAnyInProgress(w) ==
  With([open \in {{n \in DOMAIN w.sessions : IncludesInProgress(w.sessions[n])}} |->
    IF SessionsDir \notin w.dirs \/ open = {} THEN <<>> ELSE <<Max(open)>>])

\* getCurrentSessionFile: <<>> for null, <<name>> for a path.  Session names
\* are ISO timestamps of equal length, so sort() orders them by time.
getCurrentSessionFile(w) ==
  IF SessionsDir \notin w.dirs \/ DOMAIN w.sessions = {} THEN <<>>
  ELSE With([newest \in {Max(DOMAIN w.sessions)} |->
         IF IncludesInProgress(readFile(w.sessions, newest)) THEN <<newest>> ELSE <<>>])

\* the end of the line that starts at position p of s: (.*) stops at a newline
LineEnd(s, p) ==
  LET nls == {j \in p..Len(s) : s[j] = NL}
  IN IF nls = {} THEN Len(s) ELSE Min(nls) - 1

\* content.replace(/## End Time\n(.*)/, `## End Time\n${getTimestamp()}`)
replaceEndTime(content, t) ==
  With([c \in {content} |->
  With([i \in {IndexOf(c, <<"## End Time", NL>>)} |->
    IF i = 0 THEN c
    ELSE Sub(c, 1, i - 1)
         \o <<"## End Time", NL, getTimestamp(t)>>
         \o Sub(c, LineEnd(c, i + 2) + 1, Len(c))])])

updateSessionEndTime(w, t, filePath) ==
  With([updatedContent \in {replaceEndTime(readFileIn(w, w.sessions, filePath), t)} |->
    [w |-> writeSession(w, filePath, updatedContent), ok |-> CanWrite(w, SessionsDir)]])

-----------------------------------------------------------------------------
(* Archiver *)

\* path.join(this.archiveDir, file): the destination of a daily file, relative
\* to the archive directory, as the sequence of its path components
ArchiveDest(dateStr) == <<dateStr>>

\* a variant that removes the source and writes nothing
moveLosingFile(w, dateStr, dest) ==
  [w EXCEPT !.dirs = ensureDir(@, ArchiveDir), !.daily = Remove(@, dateStr)]

\* fs.move(sourcePath, destPath, { overwrite: true }) of a daily file: the
\* destination directory is created, a file already at dest is replaced
move(w, dateStr, dest) ==
  [w EXCEPT !.dirs = ensureDir(@, ArchiveDir),
            !.archive = Put(@, dest, w.daily[dateStr]),
            !.daily = Remove(@, dateStr)]

\* the least date string of a non-empty set
EarliestDate(S) == CHOOSE d \in S : \A e \in S : e = d \/ DateStrLess(d, e)

\* a variant that also archives the file dated on the threshold date
IsOldOrOnThreshold(dateStr, thresholdDateStr) ==
  dateStr = thresholdDateStr \/ DateStrLess(dateStr, thresholdDateStr)

\* dateStr < thresholdDateStr: the file is old enough to be archived
IsOld(dateStr, thresholdDateStr) == DateStrLess(dateStr, thresholdDateStr)

\* fs.move of a daily file into the archive does not throw
CanMove(w) == DailyDir \notin w.denied /\ CanWrite(w, ArchiveDir)

\* the name of the daily file of a date
DailyFileName(dateStr) == "activeContext-" \o ToString(dateStr) \o ".md"

\* fs.move of this daily file does not throw: the directories allow it and
\* the file itself is not one that cannot be moved (held in `denied` by name)
CanMoveFile(w, file) == CanMove(w) /\ DailyFileName(file) \notin w.denied

\* the loop of archiveOldFiles over the daily files still to be looked at: a
\* move that throws ends the loop, and the result is false
RECURSIVE archiveLoop(_, _, _)
archiveLoop(w, todo, thresholdDateStr) ==
  IF todo = {} THEN [w |-> w, ok |-> TRUE]
  ELSE With([file \in {EarliestDate(todo)} |->
       With([rest \in {todo \ {file}} |->
         IF ~IsOld(file, thresholdDateStr) THEN archiveLoop(w, rest, thresholdDateStr)
         ELSE IF ~CanMoveFile(w, file) THEN [w |-> w, ok |-> FALSE]
         ELSE With([moved \in {move(w, file, ArchiveDest(file))} |->
                archiveLoop(moved, rest, thresholdDateStr)])])])

\* archiveOldFiles at time t.  readdir of a missing daily directory throws,
\* which is caught: nothing moves and the result is false.
archiveOldFiles(w, t) ==
  With([thresholdDateStr \in {getDateString(t - archiveThresholdDays * HoursPerDay)} |->
    IF DailyDir \notin w.dirs THEN [w |-> w, ok |-> FALSE]
    ELSE archiveLoop(w, DOMAIN w.daily, thresholdDateStr)])

-----------------------------------------------------------------------------
(* Statistics tracker *)

developerHourlyRate == 60
MinutesPerHour == 60

\* trackStatistics at time t, without the Git counts: timeSpent as
\* <<hours, minutes>> and estimatedCost in cents
trackStatistics(w, t) ==
  LET lastUpdate == IF w.marker # <<>> THEN w.marker[1] ELSE t
      minutesSpent == (t - lastUpdate) * MinutesPerHour
  IN [timeSpent |-> <<minutesSpent \div 60, minutesSpent % 60>>,
      estimatedCost |-> (2 * minutesSpent * developerHourlyRate * 100 + 60) \div 120]

SecondsPerMinute == 60

\* JavaScript's %: the remainder has the sign of the dividend
Remainder(a, b) == IF a >= 0 THEN a % b ELSE -((-a) % b)

\* a variant that rounds the hours to the nearest
trackStatisticsRoundedHours(w, t, seconds) ==
  With([lastUpdate \in {IF w.marker # <<>> THEN w.marker[1] ELSE t} |->
  With([elapsed \in {(t - lastUpdate) * MinutesPerHour * SecondsPerMinute + seconds} |->
  With([minutesSpent \in {(2 * elapsed + SecondsPerMinute) \div (2 * SecondsPerMinute)} |->
  With([hoursSpent \in {(2 * minutesSpent + 60) \div 120} |->
  With([remainingMinutes \in {Remainder(minutesSpent, 60)} |->
    [minutesSpent |-> minutesSpent,
     timeSpent |-> ToString(hoursSpent) \o "h " \o ToString(remainingMinutes) \o "m"]])])])])])

\* trackStatistics called `seconds` after the hour t, without the Git counts
\* and the cost: Math.round of the elapsed minutes, Math.floor of the hours,
\* % for the remaining minutes, and the text of timeSpent
trackStatisticsAt(w, t, seconds) ==
  With([lastUpdate \in {IF w.marker # <<>> THEN w.marker[1] ELSE t} |->
  With([elapsed \in {(t - lastUpdate) * MinutesPerHour * SecondsPerMinute + seconds} |->
  With([minutesSpent \in {(2 * elapsed + SecondsPerMinute) \div (2 * SecondsPerMinute)} |->
  With([hoursSpent \in {minutesSpent \div 60} |->
  With([remainingMinutes \in {Remainder(minutesSpent, 60)} |->
    [minutesSpent |-> minutesSpent,
     timeSpent |-> ToString(hoursSpent) \o "h " \o ToString(remainingMinutes) \o "m"]])])])])])

\* what the two git commands of trackStatistics did: each either throws
\* ("throws"), prints nothing the pattern matches (<<>>) or prints the counts
NoGit == [diff |-> "throws", total |-> "throws"]

\* a variant in which a failing git command fails the whole call, which then
\* returns the zero record of the outer catch
trackStatisticsGitFails(w, t, git) ==
  With([base \in {trackStatistics(w, t)} |->
  With([diffRan \in {git.diff # "throws"} |->
  With([matched \in {diffRan /\ git.diff # <<>>} |->
  With([totalRan \in {diffRan /\ git.total # "throws"} |->
    IF ~totalRan
    THEN [timeSpent |-> <<0, 0>>, estimatedCost |-> 0,
          filesCreated |-> 0, filesModified |-> 0, filesDeleted |-> 0,
          linesAdded |-> 0, linesRemoved |-> 0, totalLines |-> 0]
    ELSE [timeSpent |-> base.timeSpent,
          estimatedCost |-> base.estimatedCost,
          filesCreated |-> 0,
          filesModified |-> IF matched THEN git.diff[1] ELSE 0,
          filesDeleted |-> 0,
          linesAdded |-> IF matched THEN git.diff[2] ELSE 0,
          linesRemoved |-> IF matched THEN git.diff[3] ELSE 0,
          totalLines |-> IF git.total # <<>> THEN git.total[1] ELSE 0]])])])])

\* trackStatistics at time t with the Git counts: the inner try runs
\* `git diff --stat` and then the line count; the first command that throws
\* ends the block and the counts assigned so far stay
trackStatisticsGit(w, t, git) ==
  With([base \in {trackStatistics(w, t)} |->
  With([diffRan \in {git.diff # "throws"} |->
  With([matched \in {diffRan /\ git.diff # <<>>} |->
  With([totalRan \in {diffRan /\ git.total # "throws"} |->
    [timeSpent |-> base.timeSpent,
     estimatedCost |-> base.estimatedCost,
     filesCreated |-> 0,
     filesModified |-> IF matched THEN git.diff[1] ELSE 0,
     filesDeleted |-> 0,
     linesAdded |-> IF matched THEN git.diff[2] ELSE 0,
     linesRemoved |-> IF matched THEN git.diff[3] ELSE 0,
     totalLines |-> IF totalRan /\ git.total # <<>> THEN git.total[1] ELSE 0]])])])])

-----------------------------------------------------------------------------
(* Memory bank facade *)

ProductContextTemplate(t) ==
  <<"# Product Context", NL, NL,
    "## Project Overview", NL, "-", SP, NL, NL,
    "## Goals and Objectives", NL, "-", SP, NL, NL,
    "## Core Features", NL, "-", SP, NL, NL,
    "## Architecture Overview", NL, "-", SP, NL, NL,
    "---", NL, "Footnotes:", NL,
    EntryPrefix(t), "Created product context", NL>>

ActiveContextTemplate ==
  <<"# Active Context", NL, NL,
    "## Current Focus", NL, "-", SP, NL, NL,
    "## Recent Changes", NL, "-", SP, NL, NL,
    "## Open Questions/Issues", NL, "-", SP, NL, NL>> \o StatisticsBlock

SystemPatternsTemplate(t) ==
  <<"# System Patterns", NL, NL,
    "## Architectural Patterns", NL, "-", SP, NL, NL,
    "## Design Patterns", NL, "-", SP, NL, NL,
    "## Technical Decisions", NL, "-", SP, NL, NL,
    "---", NL, EntryPrefix(t), "Created system patterns", NL>>

DecisionLogTemplate ==
  <<"# Decision Log", NL, NL, "## Decisions", NL, "-", SP, NL, NL>>

ProgressTemplate ==
  <<"# Progress", NL, NL,
    "## Current Tasks", NL, "-", SP, NL, NL,
    "## Completed Tasks", NL, "-", SP, NL, NL,
    "## Upcoming Tasks", NL, "-", SP, NL, NL,
    "## Milestones", NL, "-", SP, NL, NL>>

MasterTemplate(name, t) ==
  CASE name = "productContext.md" -> ProductContextTemplate(t)
    [] name = "activeContext.md" -> ActiveContextTemplate
    [] name = "systemPatterns.md" -> SystemPatternsTemplate(t)
    [] name = "decisionLog.md" -> DecisionLogTemplate
    [] name = "progress.md" -> ProgressTemplate

MasterNames ==
  {"productContext.md", "activeContext.md", "systemPatterns.md", "decisionLog.md",
   "progress.md"}

\* the directories EnhancedMemoryBank.initialize ensures, in its order
InitDirs == <<BaseDir, DailyDir, SessionsDir, ArchiveDir>>

\* a variant that writes the marker also when there is one
enhancedInitializeAlwaysMarker(w, t) ==
  With([failing \in {{i \in 1..Len(InitDirs) : ~CanEnsure(w, InitDirs[i])}} |->
    IF failing # {}
      THEN [w |-> [w EXCEPT !.dirs = @ \cup {InitDirs[i] : i \in 1..(Min(failing) - 1)}],
            ok |-> FALSE]
    ELSE With([made \in {[w EXCEPT !.dirs = @ \cup {InitDirs[i] : i \in 1..Len(InitDirs)}]} |->
           IF CanWriteMarker(made) THEN [w |-> [made EXCEPT !.marker = <<t>>], ok |-> TRUE]
           ELSE [w |-> made, ok |-> FALSE]])])

\* EnhancedMemoryBank.initialize at time t: the first ensureDir or the
\* writeFile that throws ends it with false, what was made before stays
enhancedInitialize(w, t) ==
  With([failing \in {{i \in 1..Len(InitDirs) : ~CanEnsure(w, InitDirs[i])}} |->
    IF failing # {}
      THEN [w |-> [w EXCEPT !.dirs = @ \cup {InitDirs[i] : i \in 1..(Min(failing) - 1)}],
            ok |-> FALSE]
    ELSE With([made \in {[w EXCEPT !.dirs = @ \cup {InitDirs[i] : i \in 1..Len(InitDirs)}]} |->
           IF made.marker # <<>> THEN [w |-> made, ok |-> TRUE]
           ELSE IF CanWriteMarker(made) THEN [w |-> [made EXCEPT !.marker = <<t>>], ok |-> TRUE]
           ELSE [w |-> made, ok |-> FALSE]])])

\* a variant that leaves progress.md out
createMasterFilesWithoutProgress(w, t) ==
  IF ~CanWriteMarker(w) THEN [w |-> w, ok |-> FALSE]
  ELSE [w |-> [w EXCEPT !.master = [n \in (MasterNames \ {"progress.md"}) \cup DOMAIN w.master |->
                                     IF n \in DOMAIN w.master THEN w.master[n]
                                     ELSE MasterTemplate(n, t)]],
        ok |-> TRUE]

\* createMasterFiles at time t: each master file that does not exist yet is
\* written from its template with fs.writeFile; ok is false when that throws
createMasterFiles(w, t) ==
  IF MasterNames \subseteq DOMAIN w.master THEN [w |-> w, ok |-> TRUE]
  ELSE IF ~CanWriteMarker(w) THEN [w |-> w, ok |-> FALSE]
  ELSE [w |-> [w EXCEPT !.master = [n \in MasterNames |->
                                     IF n \in DOMAIN w.master THEN w.master[n]
                                     ELSE MasterTemplate(n, t)]],
        ok |-> TRUE]

\* MemoryBank.initialize at time t
initialize(w, t) ==
  With([e \in {enhancedInitialize(w, t)} |->
    IF ~e.ok THEN e
    ELSE With([c \in {createMasterFiles(e.w, t)} |-> [w |-> c.w, ok |-> c.ok]])])

\* content.replace(/---\nFootnotes:\n([\s\S]*?)$/,
\*                 `---\nFootnotes:\n[ts] - Updated product context\n`)
replaceFootnotes(content, t) ==
  With([c \in {content} |->
  With([i \in {IndexOf(c, <<"---", NL, "Footnotes:", NL>>)} |->
    IF i = 0 THEN c
    ELSE Sub(c, 1, i - 1)
         \o <<"---", NL, "Footnotes:", NL, EntryPrefix(t), "Updated product context", NL>>])])

updateProductContext(w, t, update) ==
  With([content \in {readFileIn(w, w.master, "productContext.md")} |->
  With([c1 \in {IF update.projectOverview # <<>>
         THEN updateSection(content, "## Project Overview", update.projectOverview)
         ELSE content} |->
  With([c2 \in {IF update.goalsAndObjectives # <<>>
         THEN updateSection(c1, "## Goals and Objectives", update.goalsAndObjectives)
         ELSE c1} |->
  With([c3 \in {IF update.coreFeatures # <<>>
         THEN updateSection(c2, "## Core Features", update.coreFeatures)
         ELSE c2} |->
  With([c4 \in {IF update.architectureOverview # <<>>
         THEN updateSection(c3, "## Architecture Overview", update.architectureOverview)
         ELSE c3} |->
  With([updatedContent \in {replaceFootnotes(c4, t)} |->
    [w |-> writeMaster(w, "productContext.md", updatedContent),
     ok |-> CanWrite(w, BaseDir)]])])])])])])

\* the text addDecision builds for a decision at time t
DecisionEntry(t, decision) ==
  <<NL, EntryPrefix(t)>> \o decision.title
  \o <<NL, "- Rationale: ">> \o decision.rationale
  \o <<NL, "- Implications: ">> \o decision.implications
  \o <<NL, "- Status: ", decision.status>>

\* a variant that puts the new entry at the end of the document
addDecisionAtEnd(w, t, decision) ==
  With([c \in {readFile(w.master, "decisionLog.md")} |->
    IF ~CanWriteMarker(w) THEN [w |-> w, ok |-> FALSE]
    ELSE [w |-> [w EXCEPT !.master =
                   Put(@, "decisionLog.md", c \o DecisionEntry(t, decision) \o <<NL>>)],
          ok |-> TRUE]])

\* addDecision of the UMB script at time t:
\* content.replace(/## Decisions\n/, `## Decisions\n${newDecision}\n`), written
\* with fs.writeFileSync, which does not create the directory
addDecision(w, t, decision) ==
  With([c \in {readFile(w.master, "decisionLog.md")} |->
  With([replacement \in {<<"## Decisions", NL>> \o DecisionEntry(t, decision) \o <<NL>>} |->
  With([i \in {IndexOf(c, <<"## Decisions", NL>>)} |->
  With([updatedContent \in
          {IF i = 0 THEN c
           ELSE With([before \in {Sub(c, 1, i - 1)} |->
                With([after \in {Sub(c, i + 2, Len(c))} |->
                  before
                  \o GetSubstitution(replacement, <<"## Decisions", NL>>, before, after, <<>>)
                  \o after])])} |->
    IF ~CanWriteMarker(w) THEN [w |-> w, ok |-> FALSE]
    ELSE [w |-> [w EXCEPT !.master = Put(@, "decisionLog.md", updatedContent)],
          ok |-> TRUE]])])])])

\* a variant that leaves the marker as it is
updateActiveContextNoMarker(w, t, update) ==
  With([d \in {updateDailyActiveContext(w, t, update)} |->
  With([content \in {readFileIn(d.w, d.w.master, "activeContext.md")} |->
  With([updatedContent \in {applyActiveContextUpdate(content, t, update)} |->
  With([m \in {writeMaster(d.w, "activeContext.md", updatedContent)} |->
    [w |-> m, ok |-> d.ok /\ CanWrite(d.w, BaseDir)]])])])])

\* updateActiveContext at time t.  The marker is written with fs.writeFile,
\* which does not create the base directory; when it throws the result is
\* false and the two writes before it stay.
updateActiveContext(w, t, update) ==
  With([d \in {updateDailyActiveContext(w, t, update)} |->
  With([content \in {readFileIn(d.w, d.w.master, "activeContext.md")} |->
  With([updatedContent \in {applyActiveContextUpdate(content, t, update)} |->
  With([m \in {writeMaster(d.w, "activeContext.md", updatedContent)} |->
    IF CanWriteMarker(m)
      THEN [w |-> [m EXCEPT !.marker = <<t>>], ok |-> d.ok /\ CanWrite(d.w, BaseDir)]
    ELSE [w |-> m, ok |-> FALSE]])])])])

\* a variant that creates a session file on every call, also after it has
\* updated the end time of the current one
sessionStepAlwaysCreate(w, t) ==
  With([startNewSession \in {shouldStartNewSession(w, t)} |->
  With([sessionFile \in {getCurrentSessionFile(w)} |->
  With([first \in {IF ~startNewSession /\ sessionFile # <<>>
         THEN updateSessionEndTime(w, t, sessionFile[1])
         ELSE loadContext(w, t)} |->
  With([created \in {createSessionFile(first.w, t)} |->
    [w |-> created.w,
     calls |-> IF startNewSession THEN <<"loadContext", "createSessionFile">>
               ELSE IF sessionFile # <<>>
                 THEN <<"updateSessionEndTime", "createSessionFile">>
               ELSE <<"createSessionFile">>,
     startNewSession |-> startNewSession,
     sessionFile |-> sessionFile]])])])])

\* the session policy at the head of handleUMBCommand, at time t.  calls
\* lists the session operations the call made, in order.
sessionStep(w, t) ==
  With([startNewSession \in {shouldStartNewSession(w, t)} |->
  With([sessionFile \in {getCurrentSessionFile(w)} |->
  With([s \in {IF startNewSession
         THEN With([loaded \in {loadContext(w, t)} |->
                [w |-> createSessionFile(loaded.w, t).w,
                 calls |-> <<"loadContext", "createSessionFile">>]])
       ELSE IF sessionFile # <<>>
         THEN [w |-> updateSessionEndTime(w, t, sessionFile[1]).w,
               calls |-> <<"updateSessionEndTime">>]
       ELSE [w |-> createSessionFile(w, t).w,
             calls |-> <<"createSessionFile">>]} |->
    [w |-> s.w, calls |-> s.calls,
     startNewSession |-> startNewSession, sessionFile |-> sessionFile]])])])

\* handleUMBCommand at time t.  updatedFiles is the list the message reports.
handleUMBCommand(w, t, updates) ==
  With([s \in {sessionStep(w, t)} |->
  With([stats \in {trackStatistics(s.w, t)} |->
  With([pc \in {IF updates.productContext # <<>>
         THEN updateProductContext(s.w, t, updates.productContext[1])
         ELSE [w |-> s.w, ok |-> FALSE]} |->
  With([ac \in {IF updates.activeContext # <<>>
         THEN updateActiveContext(pc.w, t, updates.activeContext[1])
         ELSE [w |-> pc.w, ok |-> FALSE]} |->
  With([updatedFiles \in {(IF pc.ok THEN <<"productContext.md">> ELSE <<>>)
       \o (IF ac.ok THEN <<"activeContext.md",
                           "daily/activeContext-" \o ToString(getDateString(t)) \o ".md">>
           ELSE <<>>)} |->
  With([archived \in {archiveOldFiles(ac.w, t)} |->
  With([success \in {updatedFiles # <<>> /\ CanWriteMarker(archived.w)} |->
    [w |-> IF success THEN [archived.w EXCEPT !.marker = <<t>>] ELSE archived.w,
     success |-> success,
     updatedFiles |-> IF success THEN updatedFiles ELSE <<>>,
     startNewSession |-> s.startNewSession,
     sessionFile |-> s.sessionFile,
     calls |-> s.calls,
     stats |-> stats]])])])])])])])

\* handleUMBCommand at time t when the git commands do as `git` says: the
\* statistics are taken after the session step and are only logged
handleUMBCommandGit(w, t, updates, git) ==
  With([s \in {sessionStep(w, t)} |->
  With([r \in {handleUMBCommand(w, t, updates)} |->
    [w |-> r.w, success |-> r.success, updatedFiles |-> r.updatedFiles,
     stats |-> trackStatisticsGit(s.w, t, git)]])])

-----------------------------------------------------------------------------
(* Bounds and inputs *)

\* the time of the initial state: 2024-01-28T00:00Z
StartTime == 648
\* how long a behaviour is followed, in hours
Horizon == 3
\* the hours that may pass in one step of the clock
Elapsed == {1, 2, 3}

\* how many daily files, archived ones included, a behaviour creates
MaxDailyFiles == 2

\* the daily files there are, in the daily directory or archived
DailyFilesOf(w) == DOMAIN w.daily \cup {p[Len(p)] : p \in DOMAIN w.archive}

MaxTime == StartTime + Horizon

NoActive == [currentFocus |-> <<>>, recentChanges |-> <<>>, openQuestions |-> <<>>]
NoProduct == [projectOverview |-> <<>>, goalsAndObjectives |-> <<>>,
              coreFeatures |-> <<>>, architectureOverview |-> <<>>]

\* the update payloads handleUMBCommand is called with
UmbUpdates ==
  { [productContext |-> <<>>, activeContext |-> <<>>],
    [productContext |-> <<>>,
     activeContext |-> <<[NoActive EXCEPT !.currentFocus = <<"X">>]>>] }

-----------------------------------------------------------------------------
(* The memory bank driven through the facade *)

\* the file system becomes w
SetWorld(w) ==
  /\ dirs' = w.dirs
  /\ marker' = w.marker
  /\ master' = w.master
  /\ daily' = w.daily
  /\ sessions' = w.sessions
  /\ archive' = w.archive
  /\ denied' = w.denied

Init ==
  /\ now = StartTime
  /\ dirs = {}
  /\ marker = <<>>
  /\ master = NoFiles
  /\ daily = NoFiles
  /\ sessions = NoFiles
  /\ archive = NoFiles
  /\ denied = {}
  /\ ret = [op |-> "none"]

\* time passes between two calls
Tick ==
  \E d \in Elapsed :
    /\ now + d <= MaxTime
    /\ now' = now + d
    /\ ret' = [op |-> "tick"]
    /\ UNCHANGED <<dirs, marker, master, daily, sessions, archive, denied>>

Initialize ==
  \E r \in {initialize(World, now)} :
     /\ SetWorld(r.w)
     /\ ret' = [op |-> "initialize", ok |-> r.ok]
     /\ UNCHANGED now

HandleUMBCommand ==
  \E updates \in UmbUpdates :
    \E r \in {handleUMBCommand(World, now, updates)} :
       /\ Cardinality(DailyFilesOf(r.w)) <= MaxDailyFiles
       /\ SetWorld(r.w)
       /\ ret' = [op |-> "handleUMBCommand",
                  success |-> r.success, updatedFiles |-> r.updatedFiles,
                  startNewSession |-> r.startNewSession, sessionFile |-> r.sessionFile,
                  calls |-> r.calls]
       /\ UNCHANGED now

Next == Tick \/ Initialize \/ HandleUMBCommand

Spec == Init /\ [][Next]_vars

-----------------------------------------------------------------------------
(* The daily files over several days *)

\* how long a behaviour of the daily files is followed, in days
DayHorizon == 8
\* the days that may pass in one step of the clock
DayElapsed == {1, 7}

\* the update payloads updateDailyActiveContext is called with
ActiveUpdates ==
  { [NoActive EXCEPT !.currentFocus = <<"X">>],
    [NoActive EXCEPT !.currentFocus = <<"$", "$", "$", "$">>] }

\* the dates createDailyFile is called for: today (the default) or yesterday
DailyDates == {now, now - HoursPerDay}

TickDay ==
  \E d \in DayElapsed :
    /\ now + d * HoursPerDay <= StartTime + DayHorizon * HoursPerDay
    /\ now' = now + d * HoursPerDay
    /\ ret' = [op |-> "tick"]
    /\ UNCHANGED <<dirs, marker, master, daily, sessions, archive, denied>>

CreateDailyFile ==
  \E date \in DailyDates :
    \E r \in {createDailyFile(World, date)} :
      /\ Cardinality(DailyFilesOf(r.w)) <= MaxDailyFiles
      /\ SetWorld(r.w)
      /\ ret' = [op |-> "createDailyFile", date |-> getDateString(date), path |-> r.path]
      /\ UNCHANGED now

UpdateDailyActiveContext ==
  \E update \in ActiveUpdates :
    \E r \in {updateDailyActiveContext(World, now, update)} :
      /\ Cardinality(DailyFilesOf(r.w)) <= MaxDailyFiles
      /\ SetWorld(r.w)
      /\ ret' = [op |-> "updateDailyActiveContext", ok |-> r.ok]
      /\ UNCHANGED now

LoadContext ==
  \E r \in {loadContext(World, now)} :
    /\ Cardinality(DailyFilesOf(r.w)) <= MaxDailyFiles
    /\ SetWorld(r.w)
    /\ ret' = [op |-> "loadContext", ok |-> r.ok]
    /\ UNCHANGED now

ArchiveOldFiles ==
  \E r \in {archiveOldFiles(World, now)} :
    /\ SetWorld(r.w)
    /\ ret' = [op |-> "archiveOldFiles", ok |-> r.ok,
               moved |-> DOMAIN daily \ DOMAIN r.w.daily]
    /\ UNCHANGED now

NextDaily == TickDay \/ CreateDailyFile \/ UpdateDailyActiveContext \/ LoadContext

SpecDaily == Init /\ [][NextDaily]_vars

-----------------------------------------------------------------------------
(* The memory bank used over several days, and archived *)

NextArchive == TickDay \/ HandleUMBCommand \/ ArchiveOldFiles

SpecArchive == Init /\ [][NextArchive]_vars

-----------------------------------------------------------------------------
(* The section editor on the master documents *)

\* the longest document the section editor is followed to, in tokens
MaxDocLen == 50

\* the section headers extractSection and updateSection are called with
SectionHeaders ==
  {"## Current Focus", "## Recent Changes", "## Open Questions/Issues", "## Decisions"}

\* the new contents updateSection is called with
SectionValues ==
  { <<"X">>, <<SP, "X", NL>>, <<"$", "$">>, <<"X", NL, "## Sub", NL, "Y">> }

\* the documents the section editor starts from
SectionDocs == {"activeContext.md", "decisionLog.md"}

\* a base directory that holds one master document, as createMasterFiles writes it
InitSection ==
  /\ now = StartTime
  /\ dirs = {BaseDir}
  /\ marker = <<>>
  /\ master \in {[n \in {name} |-> MasterTemplate(name, StartTime)] : name \in SectionDocs}
  /\ daily = NoFiles
  /\ sessions = NoFiles
  /\ archive = NoFiles
  /\ denied = {}
  /\ ret = [op |-> "none"]

\* the document becomes updateSection(document, sectionHeader, newContent)
UpdateSection ==
  \E name \in DOMAIN master, sectionHeader \in SectionHeaders, newContent \in SectionValues :
    \E r \in {updateSection(master[name], sectionHeader, newContent)} :
      /\ Len(r) <= MaxDocLen
      /\ master' = Put(master, name, r)
      /\ ret' = [op |-> "updateSection", file |-> name,
                 sectionHeader |-> sectionHeader, newContent |-> newContent]
      /\ UNCHANGED <<now, dirs, marker, daily, sessions, archive, denied>>

ExtractSection ==
  \E name \in DOMAIN master, sectionHeader \in SectionHeaders :
    /\ ret' = [op |-> "extractSection", file |-> name, sectionHeader |-> sectionHeader,
               result |-> extractSection(master[name], sectionHeader)]
    /\ UNCHANGED <<now, dirs, marker, master, daily, sessions, archive, denied>>

NextSection == UpdateSection \/ ExtractSection

SpecSection == InitSection /\ [][NextSection]_vars

-----------------------------------------------------------------------------
(* The active context updated through the facade *)

\* the update payloads MemoryBank.updateActiveContext is called with
FacadeUpdates ==
  { [NoActive EXCEPT !.currentFocus = <<"X">>],
    [NoActive EXCEPT !.currentFocus = <<"$", "&">>],
    [NoActive EXCEPT !.recentChanges = <<"r1">>],
    [NoActive EXCEPT !.recentChanges = <<"r2">>],
    [NoActive EXCEPT !.recentChanges = <<"$", "&">>] }

\* the documents of the active context are within the length followed
ActiveDocsWithin(w, t) ==
  /\ Len(readFile(w.master, "activeContext.md")) <= MaxDocLen
  /\ Len(readFile(w.daily, getDateString(t))) <= MaxDocLen

UpdateActiveContext ==
  \E update \in FacadeUpdates :
    \E r \in {updateActiveContext(World, now, update)} :
      /\ ActiveDocsWithin(r.w, now)
      /\ SetWorld(r.w)
      /\ ret' = [op |-> "updateActiveContext", ok |-> r.ok, update |-> update]
      /\ UNCHANGED now

NextActive == Initialize \/ UpdateActiveContext

SpecActive == Init /\ [][NextActive]_vars

-----------------------------------------------------------------------------
(* The decision log *)

\* the titles addDecision is called with
DecisionTitles == {<<"A">>, <<"B">>, <<"$", "&">>}

\* the decisions addDecision is called with
Decisions ==
  {[title |-> title, rationale |-> <<"why">>, implications |-> <<"so">>,
    status |-> "Implemented"] : title \in DecisionTitles}

AddDecision ==
  \E decision \in Decisions :
    \E r \in {addDecision(World, now, decision)} :
      /\ Len(readFile(r.w.master, "decisionLog.md")) <= MaxDocLen
      /\ SetWorld(r.w)
      /\ ret' = [op |-> "addDecision", ok |-> r.ok, decision |-> decision]
      /\ UNCHANGED now

NextDecisions == Initialize \/ AddDecision \/ HandleUMBCommand

SpecDecisions == Init /\ [][NextDecisions]_vars

-----------------------------------------------------------------------------
(* The memory bank on a file system that refuses writes *)

\* the directories that may be made read-only
DeniableDirs == {BaseDir, DailyDir, SessionsDir}

\* a directory is made read-only: from now on every write in it fails
Deny ==
  \E dir \in DeniableDirs \ denied :
    /\ denied' = denied \cup {dir}
    /\ ret' = [op |-> "deny", dir |-> dir]
    /\ UNCHANGED <<now, dirs, marker, master, daily, sessions, archive>>

CreateSessionFile ==
  \E r \in {createSessionFile(World, now)} :
    /\ SetWorld(r.w)
    /\ ret' = [op |-> "createSessionFile", path |-> r.path]
    /\ UNCHANGED now

NextFaults ==
  \/ Deny
  \/ Initialize
  \/ CreateDailyFile
  \/ CreateSessionFile
  \/ HandleUMBCommand

SpecFaults == Init /\ [][NextFaults]_vars

-----------------------------------------------------------------------------
(* The marker over time *)

\* MemoryBank.updateActiveContext called with a new current focus
UpdateCurrentFocus ==
  \E r \in {updateActiveContext(World, now, [NoActive EXCEPT !.currentFocus = <<"X">>])} :
    /\ SetWorld(r.w)
    /\ ret' = [op |-> "updateActiveContext", ok |-> r.ok]
    /\ UNCHANGED now

\* the base directory is made read-only: the master files and the marker
\* cannot be written from now on
DenyBase ==
  /\ BaseDir \in dirs
  /\ BaseDir \notin denied
  /\ denied' = denied \cup {BaseDir}
  /\ ret' = [op |-> "deny", dir |-> BaseDir]
  /\ UNCHANGED <<now, dirs, marker, master, daily, sessions, archive>>

NextMarker == Tick \/ DenyBase \/ UpdateCurrentFocus \/ HandleUMBCommand

SpecMarker == Init /\ [][NextMarker]_vars

-----------------------------------------------------------------------------
(* Elapsed time: the marker is written on the hour and trackStatistics is
   called some seconds later *)

SecondsPastTheHour == {0, 29, 30, 90, 1770, 1800, 3569, 3570, 3599}

TrackStatistics ==
  \E seconds \in SecondsPastTheHour :
    \E r \in {trackStatisticsAt(World, now, seconds)} :
      /\ ret' = [op |-> "trackStatistics", seconds |-> seconds,
                 minutesSpent |-> r.minutesSpent, timeSpent |-> r.timeSpent]
      /\ UNCHANGED <<now, dirs, marker, master, daily, sessions, archive, denied>>

NextStatistics == Tick \/ UpdateCurrentFocus \/ TrackStatistics

SpecStatistics == Init /\ [][NextStatistics]_vars

-----------------------------------------------------------------------------
(* Statistics when git is missing, fails half way or answers *)

GitOutcomes ==
  { NoGit,
    [diff |-> <<2, 10, 3>>, total |-> "throws"],
    [diff |-> <<2, 10, 3>>, total |-> <<120>>] }

HandleUMBCommandGit ==
  \E updates \in {u \in UmbUpdates : u.activeContext # <<>>} : \E git \in GitOutcomes :
    \E r \in {handleUMBCommandGit(World, now, updates, git)} :
       /\ Cardinality(DailyFilesOf(r.w)) <= MaxDailyFiles
       /\ SetWorld(r.w)
       /\ ret' = [op |-> "handleUMBCommand", updates |-> updates,
                  git |-> git, stats |-> r.stats,
                  success |-> r.success, updatedFiles |-> r.updatedFiles]
       /\ UNCHANGED now

NextGit == Tick \/ Initialize \/ HandleUMBCommandGit

SpecGit == Init /\ [][NextGit]_vars

-----------------------------------------------------------------------------
(* handleUMBCommand with each kind of update its parameter type declares *)

NoUpdates ==
  [productContext |-> <<>>, activeContext |-> <<>>, systemPatterns |-> <<>>,
   decision |-> <<>>, progress |-> <<>>]

\* one payload per kind; `umb add decision` sends the decision alone
KindUpdates ==
  { [NoUpdates EXCEPT !.productContext = <<[NoProduct EXCEPT !.projectOverview = <<"P">>]>>],
    [NoUpdates EXCEPT !.activeContext = <<[NoActive EXCEPT !.currentFocus = <<"X">>]>>],
    [NoUpdates EXCEPT !.systemPatterns = <<[designPatterns |-> <<"D">>]>>],
    [NoUpdates EXCEPT !.decision = <<[title |-> <<"A">>, rationale |-> <<"r">>,
                                      implications |-> <<"i">>, status |-> "Pending"]>>],
    [NoUpdates EXCEPT !.progress = <<[currentTasks |-> <<"T">>]>>] }

HandleUMBCommandKinds ==
  \E updates \in KindUpdates :
    \E r \in {handleUMBCommand(World, now, updates)} :
       /\ Cardinality(DailyFilesOf(r.w)) <= MaxDailyFiles
       /\ SetWorld(r.w)
       /\ ret' = [op |-> "handleUMBCommand", updates |-> updates,
                  success |-> r.success, updatedFiles |-> r.updatedFiles]
       /\ UNCHANGED now

NextKinds == Initialize \/ HandleUMBCommandKinds

SpecKinds == Init /\ [][NextKinds]_vars

-----------------------------------------------------------------------------
(* Archiving when one daily file cannot be moved *)

\* a daily file becomes one that fs.move fails on
DenyFile ==
  \E file \in DOMAIN daily :
    /\ DailyFileName(file) \notin denied
    /\ denied' = denied \cup {DailyFileName(file)}
    /\ ret' = [op |-> "deny", file |-> DailyFileName(file)]
    /\ UNCHANGED <<now, dirs, marker, master, daily, sessions, archive>>

NextArchiveFaults == TickDay \/ CreateDailyFile \/ DenyFile \/ ArchiveOldFiles

SpecArchiveFaults == Init /\ [][NextArchiveFaults]_vars

-----------------------------------------------------------------------------
(* The product context *)

\* the updates updateProductContext is called with: every combination of
\* its four fields
ProductUpdates ==
  { [projectOverview |-> IF "o" \in S THEN <<"O">> ELSE <<>>,
     goalsAndObjectives |-> IF "g" \in S THEN <<"G">> ELSE <<>>,
     coreFeatures |-> IF "c" \in S THEN <<"C">> ELSE <<>>,
     architectureOverview |-> IF "a" \in S THEN <<"A">> ELSE <<>>] :
    S \in SUBSET {"o", "g", "c", "a"} }

UpdateProductContext ==
  \E update \in ProductUpdates :
    \E r \in {updateProductContext(World, now, update)} :
      /\ SetWorld(r.w)
      /\ ret' = [op |-> "updateProductContext", ok |-> r.ok, update |-> update]
      /\ UNCHANGED now

NextProduct == Tick \/ Initialize \/ UpdateProductContext

SpecProduct == Init /\ [][NextProduct]_vars

\* reading productContext.md starts to fail
DenyRead ==
  /\ "productContext.md" \in DOMAIN master
  /\ Unreadable("productContext.md") \notin denied
  /\ denied' = denied \cup {Unreadable("productContext.md")}
  /\ ret' = [op |-> "deny", file |-> "productContext.md"]
  /\ UNCHANGED <<now, dirs, marker, master, daily, sessions, archive>>

NextReadFaults == Initialize \/ DenyRead \/ UpdateProductContext

SpecReadFaults == Init /\ [][NextReadFaults]_vars

-----------------------------------------------------------------------------
(* Properties *)

InProgress == <<"(In progress)">>

\* the End Time field of a session file
EndTimeField(content) == extractSection(content, "## End Time")

\* the session files whose End Time field is the in-progress sentinel
InProgressSessions == {n \in DOMAIN sessions : EndTimeField(sessions[n]) = InProgress}

\* a date <<year, month, day>> as the number YYYYMMDD
DateNumber(d) == d[1] * 10000 + d[2] * 100 + d[3]

Today == getDateString(now)

\* the cutoff date of the archiver: today minus 7 days
CutoffDate == AddDays(<<2024, 1, 1>>, now \div 24 - 7)

\* the files outside the daily directory and the archive are left alone
OthersUnchanged == UNCHANGED <<marker, master, sessions>>

\* C1: at most one session file has the in-progress sentinel as its End Time.
C1_AtMostOneInProgress == Cardinality(InProgressSessions) <= 1

\* C2: a handleUMBCommand call performs exactly one session action: when
\* shouldStartNewSession() holds it calls loadContext and creates a session
\* file; else when getCurrentSessionFile() gives a path it updates that file's
\* end time and creates no session file; else it creates a session file.
C2_ThreeWayBranch ==
  [][ret'.op = "handleUMBCommand" =>
       LET startNew == shouldStartNewSession(World, now)
           cur == getCurrentSessionFile(World)
       IN /\ startNew =>
               /\ ret'.calls = <<"loadContext", "createSessionFile">>
               /\ DOMAIN sessions' = DOMAIN sessions \cup {now}
               /\ EndTimeField(sessions'[now]) = InProgress
          /\ (~startNew /\ cur # <<>>) =>
               /\ ret'.calls = <<"updateSessionEndTime">>
               /\ DOMAIN sessions' = DOMAIN sessions
               /\ EndTimeField(sessions'[cur[1]]) = <<getTimestamp(now)>>
               /\ \A n \in DOMAIN sessions \ {cur[1]} : sessions'[n] = sessions[n]
          /\ (~startNew /\ cur = <<>>) =>
               /\ ret'.calls = <<"createSessionFile">>
               /\ DOMAIN sessions' = DOMAIN sessions \cup {now}
               /\ EndTimeField(sessions'[now]) = InProgress]_vars

C2_Witness ==
  /\ ret.op = "handleUMBCommand"
  /\ ~ret.startNewSession
  /\ ret.sessionFile = <<>>
  /\ ret.calls = <<"createSessionFile">>
  /\ Cardinality(DOMAIN sessions) >= 2

C4_CurrentIsLatestOnly ==
  LET cur == getCurrentSessionFile(World)
  IN IF DOMAIN sessions = {} THEN cur = <<>>
     ELSE LET latest == CHOOSE n \in DOMAIN sessions : \A m \in DOMAIN sessions : m <= n
          IN IF EndTimeField(sessions[latest]) = InProgress
               THEN cur = <<latest>>
               ELSE cur = <<>>

C4_Witness ==
  /\ \E n \in InProgressSessions : \E m \in DOMAIN sessions \ InProgressSessions : n < m
  /\ getCurrentSessionFile(World) = <<>>

\* C5: after handleUMBCommand has updated the end time of the current session,
\* that session is still the current session.
C5_UpdatedSessionStaysCurrent ==
  (ret.op = "handleUMBCommand" /\ ret.calls = <<"updateSessionEndTime">>)
    => getCurrentSessionFile(World) = ret.sessionFile

\* C6: archiveOldFiles removes a daily file from the daily directory exactly
\* when its date is earlier than today minus 7 days.
C6_ArchivesStrictlyOlder ==
  [][ret'.op \in {"archiveOldFiles", "handleUMBCommand"} =>
       \A d \in DOMAIN daily :
         (d \notin DOMAIN daily') <=> (DateNumber(d) < DateNumber(CutoffDate))]_vars

C6_Witness ==
  /\ ret.op = "archiveOldFiles"
  /\ ret.moved # {}
  /\ CutoffDate \in DOMAIN daily

\* C7: a daily file that archiveOldFiles archives is afterwards at
\* archive/<YYYY-MM>/<file>, with YYYY-MM the year and month of its own date.
C7_ArchivedUnderYearMonth ==
  [][ret'.op = "archiveOldFiles" =>
       \A d \in DOMAIN daily \ DOMAIN daily' :
         /\ <<<<d[1], d[2]>>, d>> \in DOMAIN archive'
         /\ archive'[<<<<d[1], d[2]>>, d>>] = daily[d]]_vars

\* C8: archiveOldFiles leaves the session files, the master documents and the
\* marker alone, and every daily file is afterwards in the daily directory or
\* in the archive, with the content it had.
C8_ArchiveFrame ==
  [][ret'.op = "archiveOldFiles" =>
       /\ OthersUnchanged
       /\ \A d \in DOMAIN daily :
            \/ d \in DOMAIN daily' /\ daily'[d] = daily[d]
            \/ \E p \in DOMAIN archive' : p[Len(p)] = d /\ archive'[p] = daily[d]]_vars

C8_Witness ==
  /\ ret.op = "archiveOldFiles"
  /\ ret.moved # {}
  /\ daily # NoFiles
  /\ sessions # NoFiles
  /\ master # NoFiles
  /\ marker # <<>>

\* C9: createDailyFile for a date whose daily file exists returns its path and
\* changes no file.
C9_CreateDailyFileIdempotent ==
  [][(ret'.op = "createDailyFile" /\ ret'.date \in DOMAIN daily) =>
       /\ ret'.path = ret'.date
       /\ daily' = daily
       /\ archive' = archive
       /\ OthersUnchanged]_vars

C9_Witness ==
  /\ ret.op = "createDailyFile"
  /\ ret.path \in DOMAIN daily
  /\ extractSection(daily[ret.path], "## Current Focus") = <<"X">>

\* C10: loadContext, when a daily file of an earlier day exists and today's
\* does not, creates today's file with the Current Focus and Open
\* Questions/Issues bodies of the latest earlier file; with no daily file at
\* all it returns false and changes no file.
C10_LoadContextCarries ==
  [][ret'.op = "loadContext" =>
       LET prior == {d \in DOMAIN daily : DateNumber(d) < DateNumber(Today)}
           latest == CHOOSE d \in prior : \A e \in prior : DateNumber(e) <= DateNumber(d)
       IN /\ (prior # {} /\ Today \notin DOMAIN daily) =>
               /\ Today \in DOMAIN daily'
               /\ extractSection(daily'[Today], "## Current Focus")
                    = extractSection(daily[latest], "## Current Focus")
               /\ extractSection(daily'[Today], "## Open Questions/Issues")
                    = extractSection(daily[latest], "## Open Questions/Issues")
          /\ DOMAIN daily = {} =>
               /\ ~ret'.ok
               /\ UNCHANGED <<dirs, marker, master, daily, sessions, archive>>]_vars

\* the document has the line sectionHeader
HasHeading(content, sectionHeader) ==
  \E i \in 1..(Len(content) - 1) : content[i] = sectionHeader /\ content[i + 1] = NL

\* the text sectionHeader occurs in the document
Mentions(content, sectionHeader) == \E i \in 1..Len(content) : content[i] = sectionHeader

\* C11: for a document that has the heading H and a new content V,
\* extractSection(updateSection(doc, H, V), H) is V with the white space at
\* its two ends trimmed.
C11_SectionRoundTrip ==
  [][(ret'.op = "updateSection" /\ HasHeading(master[ret'.file], ret'.sectionHeader)) =>
       extractSection(master'[ret'.file], ret'.sectionHeader) = Trim(ret'.newContent)]_vars

\* C12: when the heading is absent from the document, extractSection returns
\* the empty string and updateSection returns the document unchanged.
C12_AbsentHeadingNoOp ==
  [][/\ (ret'.op = "updateSection" /\ ~Mentions(master[ret'.file], ret'.sectionHeader)) =>
          master' = master
     /\ (ret'.op = "extractSection" /\ ~Mentions(master[ret'.file], ret'.sectionHeader)) =>
          ret'.result = <<>>]_vars

C12_Witness ==
  /\ ret.op = "updateSection"
  /\ ~Mentions(master[ret.file], ret.sectionHeader)
  /\ master[ret.file] # MasterTemplate(ret.file, StartTime)

\* the document with the text entry put in right after the line sectionHeader
WithEntryAfter(content, sectionHeader, entry) ==
  LET i == IndexOf(content, <<sectionHeader, NL>>)
  IN Sub(content, 1, i + 1) \o entry \o Sub(content, i + 2, Len(content))

\* today's daily file as createDailyFile leaves it: the file when it exists,
\* else the template
TodaysDaily == IF Today \in DOMAIN daily THEN daily[Today] ELSE DailyTemplate(Today)

\* initialize() has run: the directories, the marker and the master files
\* exist, and activeContext.md has the section sectionHeader
Initialized(sectionHeader) ==
  /\ {BaseDir, DailyDir, SessionsDir, ArchiveDir} \subseteq dirs
  /\ marker # <<>>
  /\ MasterNames \subseteq DOMAIN master
  /\ HasHeading(master["activeContext.md"], sectionHeader)

\* C13: an updateActiveContext call with a recentChanges value r puts the one
\* entry "[timestamp] - r" right after the "## Recent Changes" line of the
\* master activeContext.md and of today's daily file, and leaves every other
\* line, the earlier entries among them, where it was below it.
C13_RecentChangesPrepended ==
  [][(ret'.op = "updateActiveContext" /\ ret'.update.recentChanges # <<>>
      /\ Initialized("## Recent Changes")) =>
       LET entry == <<EntryPrefix(now)>> \o ret'.update.recentChanges \o <<NL>>
       IN /\ master'["activeContext.md"]
               = WithEntryAfter(master["activeContext.md"], "## Recent Changes", entry)
          /\ Today \in DOMAIN daily'
          /\ daily'[Today] = WithEntryAfter(TodaysDaily, "## Recent Changes", entry)]_vars

\* C15: after updateActiveContext with currentFocus = X on an initialized
\* memory bank, the Current Focus section of the master activeContext.md reads
\* X and so does the Current Focus section of today's daily file, which exists.
C15_CurrentFocusReadsX ==
  [][(ret'.op = "updateActiveContext" /\ ret'.update.currentFocus # <<>>
      /\ Initialized("## Current Focus")) =>
       /\ extractSection(master'["activeContext.md"], "## Current Focus")
            = ret'.update.currentFocus
       /\ Today \in DOMAIN daily'
       /\ extractSection(daily'[Today], "## Current Focus") = ret'.update.currentFocus]_vars

\* what follows the line "## Decisions" in the decision log
DecisionsBody(content) ==
  LET i == IndexOf(content, <<"## Decisions", NL>>)
  IN IF i = 0 THEN <<>> ELSE Sub(content, i + 2, Len(content))

\* a is the end of b
IsSuffix(a, b) == Len(a) <= Len(b) /\ Sub(b, Len(b) - Len(a) + 1, Len(b)) = a

\* C14: the decision log is append-only and most-recent-first: no step takes
\* away or edits what is listed under "## Decisions" or changes its order, and
\* addDecision puts the new entry, timestamp and title first, above all of it.
C14_DecisionsMostRecentFirst ==
  [][("decisionLog.md" \in DOMAIN master) =>
       /\ "decisionLog.md" \in DOMAIN master'
       /\ IsSuffix(DecisionsBody(master["decisionLog.md"]),
                   DecisionsBody(master'["decisionLog.md"]))
       /\ (/\ ret'.op = "addDecision"
           /\ ret'.ok
           /\ HasHeading(master["decisionLog.md"], "## Decisions")
           /\ ret'.decision.title \in {<<"A">>, <<"B">>}) =>
             DecisionsBody(master'["decisionLog.md"])
               = DecisionEntry(now, ret'.decision) \o <<NL>>
                 \o DecisionsBody(master["decisionLog.md"])]_vars

C14_Witness ==
  /\ ret.op = "handleUMBCommand"
  /\ "decisionLog.md" \in DOMAIN master
  /\ LET log == master["decisionLog.md"]
     IN \E i, j \in 1..Len(log) : i < j /\ log[i] = "B" /\ log[j] = "A"

\* nothing of the memory bank exists
Fresh ==
  /\ dirs = {}
  /\ marker = <<>>
  /\ master = NoFiles
  /\ daily = NoFiles
  /\ sessions = NoFiles
  /\ archive = NoFiles

\* the sections of a master file that start as the placeholder "- "
PlaceholderSections(name) ==
  CASE name = "productContext.md" ->
         {"## Project Overview", "## Goals and Objectives", "## Core Features",
          "## Architecture Overview"}
    [] name = "activeContext.md" ->
         {"## Current Focus", "## Recent Changes", "## Open Questions/Issues"}
    [] name = "systemPatterns.md" ->
         {"## Architectural Patterns", "## Design Patterns", "## Technical Decisions"}
    [] name = "decisionLog.md" -> {"## Decisions"}
    [] name = "progress.md" ->
         {"## Current Tasks", "## Completed Tasks", "## Upcoming Tasks", "## Milestones"}

\* the heading is followed by a line that holds the placeholder "- "
HasPlaceholder(doc, h) ==
  \E i \in 1..(Len(doc) - 4) :
    SubSeq(doc, i, i + 4) = <<h, NL, "-", SP, NL>>

\* C16: when initialize() returns true, the base, daily, sessions and archive
\* directories exist, the marker exists and the five master files exist; on a
\* fresh base directory the marker holds the time of the call and every
\* section of the master files is the placeholder.
C16_InitializeCreatesAll ==
  [][(ret'.op = "initialize" /\ ret'.ok) =>
       /\ {BaseDir, DailyDir, SessionsDir, ArchiveDir} \subseteq dirs'
       /\ marker' # <<>>
       /\ MasterNames \subseteq DOMAIN master'
       /\ Fresh =>
            /\ marker' = <<now>>
            /\ \A name \in MasterNames : \A h \in PlaceholderSections(name) :
                 HasPlaceholder(master'[name], h)]_vars

C16_Witness ==
  /\ ret.op = "initialize"
  /\ ret.ok
  /\ marker = <<now>>
  /\ daily = NoFiles
  /\ sessions = NoFiles
  /\ \A name \in MasterNames : master[name] = MasterTemplate(name, now)

\* C17: when updateActiveContext returns true or handleUMBCommand returns
\* success = true, the marker afterwards holds the time of that call, which is
\* not earlier than its start.
C17_MarkerOverwritten ==
  [][(\/ ret'.op = "updateActiveContext" /\ ret'.ok
      \/ ret'.op = "handleUMBCommand" /\ ret'.success) =>
       /\ marker' # <<>>
       /\ marker'[1] >= now]_vars

C17_Witness ==
  /\ ret.op = "updateActiveContext"
  /\ ret.ok
  /\ now > StartTime
  /\ marker = <<now>>
  /\ Cardinality(DOMAIN sessions) >= 1

\* the name handleUMBCommand lists today's daily file under
TodaysDailyName == "daily/activeContext-" \o ToString(Today) \o ".md"

\* the names in the list of updated files
Listed(updatedFiles) == {updatedFiles[i] : i \in 1..Len(updatedFiles)}

\* C18: handleUMBCommand returns success = true exactly when it lists an
\* updated file; every file it lists exists; and a file whose Current Focus
\* the call changed to the requested value is listed.
C18_ListsExactlyTheUpdated ==
  [][ret'.op = "handleUMBCommand" =>
       /\ ret'.success <=> ret'.updatedFiles # <<>>
       /\ "activeContext.md" \in Listed(ret'.updatedFiles) =>
            "activeContext.md" \in DOMAIN master'
       /\ TodaysDailyName \in Listed(ret'.updatedFiles) => Today \in DOMAIN daily'
       /\ (/\ extractSection(readFile(master', "activeContext.md"), "## Current Focus") = <<"X">>
           /\ extractSection(readFile(master, "activeContext.md"), "## Current Focus") # <<"X">>)
            => "activeContext.md" \in Listed(ret'.updatedFiles)
       /\ (/\ extractSection(readFile(daily', Today), "## Current Focus") = <<"X">>
           /\ extractSection(readFile(daily, Today), "## Current Focus") # <<"X">>)
            => TodaysDailyName \in Listed(ret'.updatedFiles)]_vars

\* C19: createSessionFile and createDailyFile report a path only for a file
\* that is there after the call.
C19_NoPathForUnwrittenFile ==
  [][/\ ret'.op = "createSessionFile" => ret'.path \in DOMAIN sessions'
     /\ ret'.op = "createDailyFile" => ret'.path \in DOMAIN daily']_vars

\* the minutes between the marker and a moment `seconds` after the hour now,
\* rounded to the nearest
ElapsedMinutes(seconds) ==
  ((IF marker # <<>> THEN now - marker[1] ELSE 0) * 3600 + seconds + 30) \div 60

\* C20: for elapsed minutes M >= 0, trackStatistics reports timeSpent as
\* "<M div 60>h <M mod 60>m", the minutes being in 0..59.
C20_TimeSpentFormat ==
  ret.op = "trackStatistics" =>
    With([M \in {ElapsedMinutes(ret.seconds)} |->
      M >= 0 =>
        /\ ret.minutesSpent = M
        /\ M % 60 \in 0..59
        /\ ret.timeSpent = ToString(M \div 60) \o "h " \o ToString(M % 60) \o "m"])

C20_Witness ==
  /\ ret.op = "trackStatistics"
  /\ marker # <<>>
  /\ ret.minutesSpent = 90
  /\ ret.timeSpent = "1h 30m"

\* the hours between the marker and now; 0 when there is no marker
HoursSinceMarker == IF marker # <<>> THEN now - marker[1] ELSE 0

\* C21: when a git command of trackStatistics throws, handleUMBCommand still
\* gets timeSpent and estimatedCost computed from the marker, totalLines is 0,
\* all counts are 0 when git itself is not available, and a requested update
\* is still applied and reported.
C21_GitFailureDegradesToZero ==
  [][(/\ ret'.op = "handleUMBCommand"
      /\ "throws" \in {ret'.git.diff, ret'.git.total}) =>
       /\ ret'.stats.timeSpent = <<HoursSinceMarker, 0>>
       /\ ret'.stats.estimatedCost = HoursSinceMarker * developerHourlyRate * 100
       /\ ret'.stats.totalLines = 0
       /\ ret'.git.diff = "throws" =>
            /\ ret'.stats.filesModified = 0
            /\ ret'.stats.linesAdded = 0
            /\ ret'.stats.linesRemoved = 0
       /\ ret'.updates.activeContext # <<>> =>
            /\ ret'.success
            /\ extractSection(daily'[Today], "## Current Focus") = <<"X">>
            /\ HasHeading(readFile(master, "activeContext.md"), "## Current Focus") =>
                 extractSection(master'["activeContext.md"], "## Current Focus") = <<"X">>]_vars

C21_Witness ==
  /\ ret.op = "handleUMBCommand"
  /\ ret.git = NoGit
  /\ ret.updates.activeContext # <<>>
  /\ ret.stats.timeSpent[1] > 0
  /\ ret.stats.filesModified = 0
  /\ ret.success
  /\ extractSection(master["activeContext.md"], "## Current Focus") = <<"X">>

\* the master document an update kind belongs to
DocumentOf(kind) ==
  CASE kind = "productContext" -> "productContext.md"
    [] kind = "activeContext" -> "activeContext.md"
    [] kind = "systemPatterns" -> "systemPatterns.md"
    [] kind = "decision" -> "decisionLog.md"
    [] kind = "progress" -> "progress.md"

\* C22: on an initialized memory bank, handleUMBCommand with an update of any
\* of its five kinds returns success, reports the master document of that
\* kind and changes it; in particular a decision is added to decisionLog.md.
C22_EveryKindUpdated ==
  [][(ret'.op = "handleUMBCommand" /\ MasterNames \subseteq DOMAIN master) =>
       \A kind \in DOMAIN ret'.updates :
         ret'.updates[kind] # <<>> =>
           /\ ret'.success
           /\ DocumentOf(kind) \in Listed(ret'.updatedFiles)
           /\ master'[DocumentOf(kind)] # master[DocumentOf(kind)]
                \/ kind = "activeContext"]_vars

\* C23: when handleUMBCommand returns success = false with no updated file
\* ("No updates provided. Memory bank remains unchanged."), the session
\* files, the daily files, the archive, the master documents and the marker
\* are as they were before the call.
C23_NoUpdatesLeavesBankUnchanged ==
  [][(ret'.op = "handleUMBCommand" /\ ~ret'.success) =>
       UNCHANGED <<marker, master, daily, sessions, archive>>]_vars

\* the positions at which the document has the heading at the start of a line
HeadingLines(content, sectionHeader) ==
  {i \in 1..Len(content) :
     /\ content[i] = sectionHeader
     /\ i = 1 \/ content[i - 1] = NL
     /\ i = Len(content) \/ content[i + 1] = NL}

\* the second-level headings of the active context documents
ActiveHeadings == {"## Current Focus", "## Recent Changes", "## Open Questions/Issues"}

\* C24: in every state reached from an initialized memory bank by update
\* operations, each recognized section heading appears at most once in the
\* master activeContext.md and in every daily document.
C24_HeadingAtMostOnce ==
  \A h \in ActiveHeadings :
    /\ Cardinality(HeadingLines(readFile(master, "activeContext.md"), h)) <= 1
    /\ \A d \in DOMAIN daily : Cardinality(HeadingLines(daily[d], h)) <= 1

\* C25: after archiveOldFiles, every daily file older than the threshold
\* that can be moved is in the archive, also when the move of another
\* eligible file failed in the same call.
C25_ArchiveBestEffortPerFile ==
  [][ret'.op = "archiveOldFiles" =>
       \A file \in DOMAIN daily :
         (DateStrLess(file, CutoffDate) /\ CanMoveFile(World, file)) =>
           /\ file \notin DOMAIN daily'
           /\ ArchiveDest(file) \in DOMAIN archive']_vars

\* the session operations a handleUMBCommand call made
CallsOf(r) == {r.calls[i] : i \in 1..Len(r.calls)}

\* C26: a handleUMBCommand call that carries an update and directly follows
\* another such call, with less than the session timeout between them,
\* creates no session file.
C26_OneSessionPerRun ==
  [][(/\ ret.op = "handleUMBCommand" /\ ret.success
      /\ ret'.op = "handleUMBCommand" /\ ret'.success
      /\ now - marker[1] < sessionTimeoutHours) =>
       "createSessionFile" \notin CallsOf(ret')]_vars

\* C27: a handleUMBCommand call that directly follows a call which started a
\* new session (shouldStartNewSession was true) creates no session file,
\* whether or not the first call carried an update.
C27_NewSessionResetsTimer ==
  [][(/\ ret.op = "handleUMBCommand" /\ ret.startNewSession
      /\ "createSessionFile" \in CallsOf(ret)
      /\ ret'.op = "handleUMBCommand") =>
       "createSessionFile" \notin CallsOf(ret')]_vars

\* C28: an updateProductContext call during which the read of
\* productContext.md fails leaves the content of the document as it was.
C28_FailedReadKeepsContent ==
  [][(/\ ret'.op = "updateProductContext"
      /\ "productContext.md" \in DOMAIN master
      /\ Unreadable("productContext.md") \in denied) =>
       master'["productContext.md"] = master["productContext.md"]]_vars

\* the position of the footnotes block of a document; 0 when there is none
FootnotesAt(content) == IndexOf(content, <<"---", NL, "Footnotes:", NL>>)

\* C29: after an updateProductContext call at time t on an initialized
\* productContext.md, the document has the footnotes block, and the block is
\* the entry "[t] - Updated product context".
C29_FootnotesKept ==
  [][(/\ ret'.op = "updateProductContext"
      /\ FootnotesAt(readFile(master, "productContext.md")) # 0) =>
       With([c \in {master'["productContext.md"]} |->
         /\ FootnotesAt(c) # 0
         /\ Sub(c, FootnotesAt(c) + 4, Len(c))
              = <<EntryPrefix(now), "Updated product context", NL>>])]_vars

\* C30: initialize() leaves the content of every master file, daily file and
\* session file that exists, and the marker when there is one, as it was; on
\* a memory bank that has the master files and the marker nothing changes.
C30_InitializeNonDestructive ==
  [][ret'.op = "initialize" =>
       /\ \A name \in DOMAIN master :
            name \in DOMAIN master' /\ master'[name] = master[name]
       /\ daily' = daily
       /\ sessions' = sessions
       /\ archive' = archive
       /\ marker # <<>> => marker' = marker
       /\ (marker # <<>> /\ MasterNames \subseteq DOMAIN master) => master' = master]_vars

C30_Witness ==
  /\ ret.op = "initialize"
  /\ ret.ok
  /\ marker # <<>>
  /\ marker[1] < now
  /\ sessions # NoFiles
  /\ daily # NoFiles
  /\ extractSection(master["activeContext.md"], "## Current Focus") = <<"X">>
====
